---- MODULE Spec2Model ----
(***************************************************************************)
(* The particle field of script.js ("Particle Snow Effect"): the Particle  *)
(* class, the field built by initParticles, the pointer listeners, the     *)
(* animate loop with drawConnections, and the debounced resize listener.   *)
(* The theme, which only selects the colour of the drawing, is left out.   *)
(*                                                                         *)
(* Numbers.  JavaScript numbers are modelled in fixed point: a real v is   *)
(* the integer round(v * 1000) ("milli").  Canvas and pointer coordinates  *)
(* are whole pixels, as the DOM delivers them, and are scaled when they    *)
(* meet a particle coordinate.  A product of two reals is rounded to the   *)
(* nearest milli (Mul); Math.sqrt is the exact floor square root in milli  *)
(* (Hypot); Math.sin is Bhaskara's rational approximation (Sin).           *)
(* Math.random() is an input: a value of 0..999 milli, i.e. in [0, 1).     *)
(*                                                                         *)
(* Browser.  requestAnimationFrame holds callbacks until the next frame;   *)
(* setTimeout holds a callback until its due time, and the callback runs   *)
(* when it is due (time does not pass a due timeout).                      *)
(*                                                                         *)
(* History.  tick records the inputs and the calls of the last animate()   *)
(* on the current field; debounce records the resize events and rebuilds.  *)
(***************************************************************************)
EXTENDS Integers, Sequences, FiniteSets

\* ------------------------------------------------------------------ bounds

\* Frame ticks after the startup call of animate().
MaxFrames == 3

\* Frame ticks after startup while one pointer position hovers over the field.
MaxHoverFrames == 8

\* Resize events delivered to the window while frames and pointer events run.
MaxResizes == 1

\* The clock stops advancing after this many quanta while frames run.
MaxTime == 3

\* Resize events delivered to the window when only the resize listener runs.
MaxBurst == 5

\* The clock stops advancing after this many quanta when only the resize
\* listener runs.
MaxClock == 4

\* Clock quanta per debounce delay.
StepsPerDebounce == 2

\* ------------------------------------------------------- program constants

\* Fixed-point scale: 1.0 is 1000.
Scale == 10 ^ 3

\* JavaScript null of mouse.x / mouse.y (no client coordinate is negative).
Null == -1

\* mouse.radius
MouseRadius == 150

\* this.friction = 0.98
Friction == 980

\* this.returnSpeed = 0.02
ReturnSpeed == 20

\* Math.min(0.9, ...)
OpacityCap == 900

\* this.opacity + 0.02
OpacityBoost == 20

\* (0.4 - this.opacity) * 0.01
OpacityRest == 400

OpacityReturn == 10

\* force * 2
ForceGain == 2

\* Math.sin(this.swing) * this.swingAmplitude * 0.1
SwingGain == 100

\* canvas.height + 10, canvas.width + 10, this.y = -10, this.x = -10
Margin == 10

\* (canvas.width * canvas.height) / 6000
AreaPerParticle == 6000

\* distance2 < 80
LinkRadius == 80

\* setTimeout(..., 200), in milliseconds
DebounceMs == 200

\* Milliseconds per clock quantum of the model.
TimeQuantum == DebounceMs \div StepsPerDebounce

\* Math.PI and 2 * Math.PI in milli-radians.
Pi == 3142

TwoPi == 6283

\* ------------------------------------------------------------- arithmetic

Abs(a) == IF a < 0 THEN -a ELSE a

Min(a, b) == IF a < b THEN a ELSE b

\* n / d rounded to the nearest integer (d > 0).
Round(n, d) == (2 * n + d) \div (2 * d)

\* The product of two fixed-point reals.
Mul(a, b) == Round(a * b, Scale)

\* The quotient of two fixed-point reals.
Quot(a, b) == Round(a * Scale, b)

\* Math.floor(a / b) of two whole numbers.
Floor(a, b) == a \div b

\* a * a as <<hi, lo>> with a * a = hi * 10^6 + lo and 0 <= lo < 10^6, so that
\* squares of milli-pixel distances stay within 32-bit integers.
Square(a) ==
    LET m == Abs(a)
        ah == m \div Scale
        al == m % Scale
        cross == 2 * ah * al
        lo == (cross % Scale) * Scale + al * al
    IN  << ah * ah + cross \div Scale + lo \div (Scale * Scale), lo % (Scale * Scale) >>

PairAdd(p, q) ==
    LET lo == p[2] + q[2]
    IN  << p[1] + q[1] + lo \div (Scale * Scale), lo % (Scale * Scale) >>

PairLeq(p, q) == p[1] < q[1] \/ (p[1] = q[1] /\ p[2] <= q[2])

\* The largest r in lo..hi with r * r <= target (a pair), by bisection.
RECURSIVE RootSearch(_, _, _)
RootSearch(lo, hi, target) ==
    IF lo >= hi THEN lo
    ELSE LET mid == (lo + hi + 1) \div 2
         IN  IF PairLeq(Square(mid), target)
             THEN RootSearch(mid, hi, target)
             ELSE RootSearch(lo, mid - 1, target)

\* Math.sqrt(dx * dx + dy * dy), rounded down to a milli.
Hypot(dx, dy) == RootSearch(0, Abs(dx) + Abs(dy), PairAdd(Square(dx), Square(dy)))

\* Math.sin(t) for t >= 0 in milli-radians: Bhaskara's approximation
\* 16 x (pi - x) / (5 pi^2 - 4 x (pi - x)) on [0, pi], odd about pi.
Sin(t) ==
    LET r == t % TwoPi
        x == IF r > Pi THEN r - Pi ELSE r
        p == (x * (Pi - x)) \div Scale
        s == (16 * p * Scale) \div ((5 * Pi * Pi) \div Scale - 4 * p)
    IN  IF r > Pi THEN -s ELSE s

\* Math.cos(Math.atan2(dy, dx)) and Math.sin(Math.atan2(dy, dx)): the unit vector
\* along (dx, dy); Math.atan2(0, 0) is 0, whose cosine is 1 and sine 0.
CosAtan2(dy, dx) == IF dx = 0 /\ dy = 0 THEN Scale ELSE Round(dx * Scale, Hypot(dx, dy))

SinAtan2(dy, dx) == IF dx = 0 /\ dy = 0 THEN 0 ELSE Round(dy * Scale, Hypot(dx, dy))

\* ---------------------------------------------------------------- inputs

\* Viewport sizes <<innerWidth, innerHeight>> the window takes, in pixels.
Viewports == { <<0, 0>>, <<310, 20>>, <<310, 40>> }

\* One Particle's worth of Math.random() results, in call order of reset(),
\* followed by the one initParticles draws for y.
Draw(x, y, size, speedY, speedX, opacity, swing, swingSpeed, swingAmplitude, initY) ==
    [x |-> x, y |-> y, size |-> size, speedY |-> speedY, speedX |-> speedX,
     opacity |-> opacity, swing |-> swing, swingSpeed |-> swingSpeed,
     swingAmplitude |-> swingAmplitude, initY |-> initY]

Draws == { Draw(0, 0, 0, 0, 500, 999, 0, 0, 0, 0),
           Draw(0, 999, 999, 999, 999, 999, 999, 999, 999, 999),
           Draw(950, 500, 500, 999, 0, 0, 250, 500, 500, 400) }

\* Client coordinates <<clientX, clientY>> of pointer events, in pixels.
Pointers == { <<2, 10>>, <<224, 0>> }

\* The pointer position used while resize events interleave and in longer runs.
NearPointers == { <<2, 10>> }

\* ------------------------------------------------------------- Particle

\* reset(): every randomized attribute is redrawn, the interaction velocity zeroed.
reset(p, canvas, rnd) ==
    LET speedY == Mul(rnd.speedY, 300) + 100
        speedX == Mul(rnd.speedX, 100) - 50
    IN  [p EXCEPT
            !.x = rnd.x * canvas.width,
            !.y = rnd.y * canvas.height - canvas.height * Scale,
            !.size = Mul(rnd.size, 2500) + 1000,
            !.speedY = speedY,
            !.speedX = speedX,
            !.opacity = Mul(rnd.opacity, 500) + 300,
            !.swing = Mul(rnd.swing, TwoPi),
            !.swingSpeed = Mul(rnd.swingSpeed, 5) + 2,
            !.swingAmplitude = Mul(rnd.swingAmplitude, 500) + 200,
            !.baseSpeedY = speedY,
            !.baseSpeedX = speedX,
            !.vx = 0,
            !.vy = 0]

\* A Particle before its constructor has run: every field undefined (0 here).
Blank ==
    [x |-> 0, y |-> 0, size |-> 0, speedY |-> 0, speedX |-> 0, opacity |-> 0,
     swing |-> 0, swingSpeed |-> 0, swingAmplitude |-> 0, baseSpeedY |-> 0,
     baseSpeedX |-> 0, vx |-> 0, vy |-> 0, friction |-> 0, returnSpeed |-> 0]

\* new Particle()
NewParticle(canvas, rnd) ==
    LET q == reset(Blank, canvas, rnd)
    IN  [q EXCEPT !.baseSpeedY = q.speedY, !.baseSpeedX = q.speedX,
                  !.vx = 0, !.vy = 0,
                  !.friction = Friction, !.returnSpeed = ReturnSpeed]

\* mouse.x !== null && mouse.y !== null
PointerPresent(mouse) == mouse.x # Null /\ mouse.y # Null

\* The distance of update() from the particle to the pointer, in milli-pixels.
PointerDistance(p, mouse) == Hypot(p.x - mouse.x * Scale, p.y - mouse.y * Scale)

\* force = (mouse.radius - distance) / mouse.radius
Force(distance, radius) == Quot(radius * Scale - distance, radius * Scale)

\* Mutant of Repulsion: the force pulls toward the pointer.
RepulsionTowardPointer(p, mouse) ==
    LET dx == mouse.x * Scale - p.x
        dy == mouse.y * Scale - p.y
        force == Force(Hypot(dx, dy), mouse.radius)
    IN  << Mul(CosAtan2(dy, dx), force) * ForceGain,
           Mul(SinAtan2(dy, dx), force) * ForceGain >>

\* The vector update() adds to (vx, vy) for a pointer at distance < radius.
Repulsion(p, mouse) ==
    LET dx == p.x - mouse.x * Scale
        dy == p.y - mouse.y * Scale
        force == Force(Hypot(dx, dy), mouse.radius)
    IN  << Mul(CosAtan2(dy, dx), force) * ForceGain,
           Mul(SinAtan2(dy, dx), force) * ForceGain >>

\* update(), the pointer block: repulsion and the opacity boost.
Interact(p, mouse) ==
    IF PointerPresent(mouse) /\ PointerDistance(p, mouse) < mouse.radius * Scale
    THEN LET push == Repulsion(p, mouse)
         IN  [p EXCEPT !.vx = p.vx + push[1],
                       !.vy = p.vy + push[2],
                       !.opacity = Min(OpacityCap, p.opacity + OpacityBoost)]
    ELSE p

\* update(): friction, the return to the base falling speed, the swing, the
\* movement and the return of the opacity.
Integrate(p) ==
    LET vx == Mul(p.vx, p.friction)
        vf == Mul(p.vy, p.friction)
        vy == vf + Mul(p.baseSpeedY - vf, p.returnSpeed)
        swing == p.swing + p.swingSpeed
    IN  [p EXCEPT !.vx = vx,
                  !.vy = vy,
                  !.swing = swing,
                  !.x = p.x + vx + p.baseSpeedX
                            + Mul(Mul(Sin(swing), p.swingAmplitude), SwingGain),
                  !.y = p.y + vy,
                  !.opacity = p.opacity + Mul(OpacityRest - p.opacity, OpacityReturn)]

\* Mutant of BelowScreen: the bottom edge compared with the canvas width.
BelowScreenByWidth(p, canvas) == p.y > (canvas.width + Margin) * Scale

\* this.y > canvas.height + 10
BelowScreen(p, canvas) == p.y > (canvas.height + Margin) * Scale

\* Mutant of Respawn: the y drawn by reset() is kept.
RespawnKeepsDrawnY(p, canvas, rnd) ==
    IF BelowScreen(p, canvas) THEN reset(p, canvas, rnd) ELSE p

\* update(): reset the particle when it goes below the screen.
Respawn(p, canvas, rnd) ==
    IF BelowScreen(p, canvas)
    THEN [reset(p, canvas, rnd) EXCEPT !.y = -Margin * Scale]
    ELSE p

\* Mutant of Wrap: only the right edge wraps.
WrapRightOnly(p, canvas) ==
    IF p.x > (canvas.width + Margin) * Scale THEN [p EXCEPT !.x = -Margin * Scale]
    ELSE p

\* update(): wrap around horizontally.
Wrap(p, canvas) ==
    IF p.x > (canvas.width + Margin) * Scale THEN [p EXCEPT !.x = -Margin * Scale]
    ELSE IF p.x < -Margin * Scale THEN [p EXCEPT !.x = (canvas.width + Margin) * Scale]
    ELSE p

\* update()
update(p, mouse, canvas, rnd) ==
    Wrap(Respawn(Integrate(Interact(p, mouse)), canvas, rnd), canvas)

\* ---------------------------------------------------------------- state

VARIABLES
    window,         \* [innerWidth, innerHeight]: the viewport, in pixels
    canvas,         \* [width, height] of the canvas element, in pixels
    mouse,          \* [x, y, radius]: x and y are Null or client coordinates
    particles,      \* the field: a sequence of Particles
    animationId,    \* the handle of the last requestAnimationFrame
    rafPending,     \* animate callbacks the browser holds for the next frame
    resizeTimeout,  \* the handle of the last setTimeout, Null before the first
    timers,         \* pending timeouts: a set of [id, due]
    timerSeq,       \* the last timeout handle the browser issued
    now,            \* the clock, in milliseconds
    frames,         \* frame ticks run since startup
    resizes,        \* resize events delivered
    tick,           \* what the last animate() did: its inputs and its calls
    debounce        \* history of the resize listener: events and rebuilds

vars == << window, canvas, mouse, particles, animationId, rafPending, resizeTimeout,
           timers, timerSeq, now, frames, resizes, tick, debounce >>

\* ---------------------------------------------------------------- canvas

\* resizeCanvas()
resizeCanvas(win) == [width |-> win.innerWidth, height |-> win.innerHeight]

\* Mutant of particleCount: Math.ceil for Math.floor.
particleCountCeil(cv) == Floor(cv.width * cv.height + AreaPerParticle - 1, AreaPerParticle)

\* const particleCount = Math.floor((canvas.width * canvas.height) / 6000)
particleCount(cv) == Floor(cv.width * cv.height, AreaPerParticle)

\* initParticles(): the field is emptied and refilled, each new Particle's y
\* redrawn across the screen.
initParticles(cv, rnds) ==
    [i \in 1..particleCount(cv) |->
        [NewParticle(cv, rnds[i]) EXCEPT !.y = rnds[i].initY * cv.height]]

\* ----------------------------------------------------------- connections

\* A call on the drawing surface, or an update() of particle i, in program order.
Call(op, i, j, from, to, alpha) ==
    [op |-> op, i |-> i, j |-> j, from |-> from, to |-> to, alpha |-> alpha]

\* Mutant of PairStrokes: the distance between the two particles is not tested.
RECURSIVE PairStrokesAnyDistance(_, _, _)
PairStrokesAnyDistance(ps, i, j) ==
    IF j > Len(ps) THEN << >>
    ELSE << Call("stroke", i, j, << ps[i].x, ps[i].y >>, << ps[j].x, ps[j].y >>, 0) >>
         \o PairStrokesAnyDistance(ps, i, j + 1)

\* The inner loop of drawConnections: particle i against the particles from j on.
RECURSIVE PairStrokes(_, _, _)
PairStrokes(ps, i, j) ==
    IF j > Len(ps) THEN << >>
    ELSE LET distance2 == Hypot(ps[i].x - ps[j].x, ps[i].y - ps[j].y)
             opacity2 == Mul(Scale - Quot(distance2, LinkRadius * Scale), 100)
         IN  (IF distance2 < LinkRadius * Scale
              THEN << Call("stroke", i, j, << ps[i].x, ps[i].y >>,
                           << ps[j].x, ps[j].y >>, opacity2) >>
              ELSE << >>)
             \o PairStrokes(ps, i, j + 1)

\* The outer loop of drawConnections, from particle i on.
RECURSIVE PointerStrokes(_, _, _)
PointerStrokes(ps, m, i) ==
    IF i > Len(ps) THEN << >>
    ELSE LET distance == Hypot(ps[i].x - m.x * Scale, ps[i].y - m.y * Scale)
             opacity == Mul(Scale - Quot(2 * distance, 3 * m.radius * Scale), 150)
         IN  (IF 2 * distance < 3 * m.radius * Scale
              THEN << Call("stroke", i, 0, << ps[i].x, ps[i].y >>,
                           << m.x * Scale, m.y * Scale >>, opacity) >>
                   \o PairStrokes(ps, i, i + 1)
              ELSE << >>)
             \o PointerStrokes(ps, m, i + 1)

\* Mutant of drawConnections: no early return, so a null coordinate is used
\* in the arithmetic, where JavaScript takes it for 0.
drawConnectionsNullAsZero(ps, m) ==
    PointerStrokes(ps, [m EXCEPT !.x = IF m.x = Null THEN 0 ELSE m.x,
                                 !.y = IF m.y = Null THEN 0 ELSE m.y], 1)

\* drawConnections(): the strokes it issues, in order.
drawConnections(ps, m) ==
    IF m.x = Null \/ m.y = Null THEN << >> ELSE PointerStrokes(ps, m, 1)

\* ------------------------------------------------------------------ animate

\* The particles whose update() calls reset(), and so draws random numbers.
Resetting(ps, m, cv) ==
    { i \in DOMAIN ps : BelowScreen(Integrate(Interact(ps[i], m)), cv) }

\* Math.random() is not called for a particle that is not reset.
NoDraw == Draw(0, 0, 0, 0, 0, 0, 0, 0, 0, 0)

DrawOf(rnds, i) == IF i \in DOMAIN rnds THEN rnds[i] ELSE NoDraw

\* The calls of particles.forEach(particle => { particle.update();
\* particle.draw(); }) from particle i on: each update is followed by its draw.
RECURSIVE EachCalls(_, _, _)
EachCalls(ps, after, i) ==
    IF i > Len(ps) THEN << >>
    ELSE << Call("update", i, 0, << ps[i].x, ps[i].y >>,
                 << after[i].x, after[i].y >>, 0),
            Call("arc", i, 0, << after[i].x, after[i].y >>,
                 << after[i].x, after[i].y >>, after[i].opacity) >>
         \o EachCalls(ps, after, i + 1)

\* particles.forEach(particle => { particle.update(); particle.draw(); })
UpdateAndDraw(ps, m, cv, rnds) ==
    LET after == [i \in DOMAIN ps |-> update(ps[i], m, cv, DrawOf(rnds, i))]
    IN  [particles |-> after, calls |-> EachCalls(ps, after, 1)]

\* Mutant of animate: the connection lines are drawn after the particles have
\* been updated.
animateUpdatesFirst(ps, m, cv, rnds) ==
    LET clear == << Call("clearRect", 0, 0, << 0, 0 >>,
                         << cv.width * Scale, cv.height * Scale >>, 0) >>
        loop == UpdateAndDraw(ps, m, cv, rnds)
        lines == drawConnections(loop.particles, m)
    IN  [particles |-> loop.particles,
         tick |-> [mouse |-> m, canvas |-> cv, before |-> ps,
                   calls |-> clear \o lines \o loop.calls]]

\* animate(), up to its requestAnimationFrame: the new field and the record of
\* the tick.
animate(ps, m, cv, rnds) ==
    LET clear == << Call("clearRect", 0, 0, << 0, 0 >>,
                         << cv.width * Scale, cv.height * Scale >>, 0) >>
        lines == drawConnections(ps, m)
        loop == UpdateAndDraw(ps, m, cv, rnds)
    IN  [particles |-> loop.particles,
         tick |-> [mouse |-> m, canvas |-> cv, before |-> ps,
                   calls |-> clear \o lines \o loop.calls]]

NoMouse == [x |-> Null, y |-> Null, radius |-> MouseRadius]

\* The record of a field no tick has run on yet.
NoTick == [mouse |-> NoMouse, canvas |-> [width |-> 0, height |-> 0],
           before |-> << >>, calls |-> << >>]

\* requestAnimationFrame(animate): one more callback held for the next frame.
requestAnimationFrame(pending) == pending + 1

\* ------------------------------------------------------------------- Init

\* The script has run: resizeCanvas(); initParticles(); animate(); and the
\* listeners are installed.
Init ==
    \E vp \in Viewports :
        LET win == [innerWidth |-> vp[1], innerHeight |-> vp[2]]
            cv == resizeCanvas(win)
        IN  \E rnds \in [1..particleCount(cv) -> Draws] :
                LET field == initParticles(cv, rnds)
                IN  \E again \in [Resetting(field, NoMouse, cv) -> Draws] :
                        LET first == animate(field, NoMouse, cv, again)
                        IN  /\ window = win
                            /\ canvas = cv
                            /\ mouse = NoMouse
                            /\ particles = first.particles
                            /\ tick = first.tick
                            /\ animationId = 1
                            /\ rafPending = requestAnimationFrame(0)
                            /\ resizeTimeout = Null
                            /\ timers = {}
                            /\ timerSeq = 0
                            /\ now = 0
                            /\ frames = 0
                            /\ resizes = 0
                            /\ debounce = [burstLen |-> 0, burstStart |-> Null,
                                           strict |-> TRUE, lastResize |-> Null,
                                           rebuilds |-> 0, rebuiltLen |-> 0,
                                           rebuiltDelay |-> Null,
                                           rebuiltSpan |-> Null,
                                           rebuiltStrict |-> TRUE]

\* ---------------------------------------------------------------- actions

\* The browser runs the pending animate callback.
Animate(limit) ==
    /\ rafPending > 0
    /\ frames < limit
    /\ \E rnds \in [Resetting(particles, mouse, canvas) -> Draws] :
           LET run == animate(particles, mouse, canvas, rnds)
           IN  /\ particles' = run.particles
               /\ tick' = run.tick
    /\ rafPending' = requestAnimationFrame(rafPending - 1)
    /\ animationId' = animationId + 1
    /\ frames' = frames + 1
    /\ UNCHANGED << window, canvas, mouse, resizeTimeout, timers, timerSeq, now,
                    resizes, debounce >>

\* Pointer events reach the window only inside the viewport.
InViewport(pt) == pt[1] < window.innerWidth /\ pt[2] < window.innerHeight

OthersUnchanged ==
    UNCHANGED << window, canvas, particles, animationId, rafPending, resizeTimeout,
                 timers, timerSeq, now, frames, resizes, tick, debounce >>

\* window 'mousemove'
MouseMove(points) ==
    \E pt \in points :
        /\ InViewport(pt)
        /\ mouse' = [mouse EXCEPT !.x = pt[1], !.y = pt[2]]
        /\ OthersUnchanged

\* window 'mouseout'
MouseOut ==
    /\ mouse' = [mouse EXCEPT !.x = Null, !.y = Null]
    /\ OthersUnchanged

\* window 'touchmove': e.touches may be empty.
TouchMove(points) ==
    \E touches \in { << >> } \cup { << pt >> : pt \in { q \in points : InViewport(q) } } :
        /\ mouse' = IF Len(touches) > 0
                    THEN [mouse EXCEPT !.x = touches[1][1], !.y = touches[1][2]]
                    ELSE mouse
        /\ OthersUnchanged

\* window 'touchend'
TouchEnd ==
    /\ mouse' = [mouse EXCEPT !.x = Null, !.y = Null]
    /\ OthersUnchanged

\* Mutant of clearTimeout: the listener does not cancel the pending timeout.
clearTimeoutNothing(pending, id) == pending

\* clearTimeout(id): a pending timeout with that handle is dropped.
clearTimeout(pending, id) == { t \in pending : t.id # id }

\* setTimeout(callback, delay): the pending timeouts with the new one.
setTimeout(pending, id, delay) == pending \cup { [id |-> id, due |-> now + delay] }

\* window 'resize': the viewport has a new size; the rebuild is (re)armed.
Resize(limit) ==
    /\ resizes < limit
    /\ \E vp \in Viewports :
           window' = [innerWidth |-> vp[1], innerHeight |-> vp[2]]
    /\ timers' = setTimeout(clearTimeout(timers, resizeTimeout), timerSeq + 1, DebounceMs)
    /\ resizeTimeout' = timerSeq + 1
    /\ timerSeq' = timerSeq + 1
    /\ resizes' = resizes + 1
    /\ debounce' =
           [debounce EXCEPT
               !.burstLen = @ + 1,
               !.burstStart = IF debounce.burstLen = 0 THEN now ELSE @,
               !.strict = IF debounce.burstLen = 0 THEN TRUE
                          ELSE @ /\ now - debounce.lastResize < DebounceMs,
               !.lastResize = now]
    /\ UNCHANGED << canvas, mouse, particles, animationId, rafPending, now, frames, tick >>

\* The timeout callback of the resize listener: resizeCanvas(); initParticles().
ResizeTimeout ==
    \E t \in timers :
        /\ t.due <= now
        /\ timers' = timers \ { t }
        /\ LET cv == resizeCanvas(window)
           IN  /\ canvas' = cv
               /\ \E rnds \in [1..particleCount(cv) -> Draws] :
                      particles' = initParticles(cv, rnds)
        /\ debounce' = [debounce EXCEPT
                            !.burstLen = 0,
                            !.rebuilds = @ + 1,
                            !.rebuiltLen = debounce.burstLen,
                            !.rebuiltDelay = now - debounce.lastResize,
                            !.rebuiltSpan = debounce.lastResize - debounce.burstStart,
                            !.rebuiltStrict = debounce.strict]
        /\ tick' = NoTick
        /\ UNCHANGED << window, mouse, animationId, rafPending, resizeTimeout, timerSeq,
                        now, frames, resizes >>

\* Time passes, up to the next pending timeout: a due timeout runs first.
AdvanceTime(limit) ==
    /\ now < limit * TimeQuantum
    /\ \A t \in timers : t.due > now
    /\ now' = IF \E t \in timers : t.due <= now + TimeQuantum
              THEN CHOOSE d \in { t.due : t \in timers } :
                       \A t \in timers : d <= t.due
              ELSE now + TimeQuantum
    /\ UNCHANGED << window, canvas, mouse, particles, animationId, rafPending,
                    resizeTimeout, timers, timerSeq, frames, resizes, tick, debounce >>

\* Every listener and callback of the field, interleaved.
Next ==
    \/ Animate(MaxFrames)
    \/ MouseMove(NearPointers)
    \/ MouseOut
    \/ TouchMove(NearPointers)
    \/ TouchEnd
    \/ Resize(MaxResizes)
    \/ ResizeTimeout
    \/ AdvanceTime(MaxTime)

Spec == Init /\ [][Next]_vars

\* The frame loop and the pointer listeners in a window that keeps its size.
NextField ==
    \/ Animate(MaxFrames)
    \/ MouseMove(Pointers)
    \/ MouseOut
    \/ TouchMove(Pointers)
    \/ TouchEnd

SpecField == Init /\ [][NextField]_vars

\* The resize listener and its timeout alone, with longer bursts.
NextResize ==
    \/ Resize(MaxBurst)
    \/ ResizeTimeout
    \/ AdvanceTime(MaxClock)

SpecResize == Init /\ [][NextResize]_vars

\* A longer run of frames under one pointer position that comes and goes.
NextHover ==
    \/ Animate(MaxHoverFrames)
    \/ MouseMove(NearPointers)
    \/ MouseOut

SpecHover == Init /\ [][NextHover]_vars

\* ------------------------------------------------------------------ claims

\* The y written by the last update() of particle i (the tick keeps the field
\* order, so the update call of particle i is the one with that index).
UpdatedIn(t, i) == { c \in { t.calls[k] : k \in DOMAIN t.calls } : c.op = "update" /\ c.i = i }

\* C1, as stated: after every update, in any interleaving of frames, pointer
\* events and resize rebuilds, every particle has -10 <= y <= canvas.height + 10.
C1_ExtendedViewportY ==
    \A i \in DOMAIN particles :
        /\ -Margin * Scale <= particles[i].y
        /\ particles[i].y <= (canvas.height + Margin) * Scale

\* C1, amended: in any interleaving every particle has y <= canvas.height + 10
\* (respawn at the bottom edge), and an update() that applies no repulsion to a
\* particle with vy >= 0 and y >= -10 leaves it with y >= -10.
C1_RespawnBoundsY ==
    /\ \A i \in DOMAIN particles : particles[i].y <= (canvas.height + Margin) * Scale
    /\ \A i \in DOMAIN tick.before :
           (/\ Interact(tick.before[i], tick.mouse) = tick.before[i]
            /\ tick.before[i].vy >= 0
            /\ tick.before[i].y >= -Margin * Scale)
           => \A c \in UpdatedIn(tick, i) : c.to[2] >= -Margin * Scale

\* C1 witness: a particle fell past the bottom edge in the last tick and now
\* sits at y = -10, in a field rebuilt by a resize.
C1_Witness ==
    /\ debounce.rebuilds > 0
    /\ \E i \in DOMAIN tick.before :
           /\ BelowScreen(Integrate(Interact(tick.before[i], tick.mouse)), tick.canvas)
           /\ particles[i].y = -Margin * Scale

\* The particle the last tick's update() started from, after its pointer
\* block, and after its movement (before the boundary policy).
Before(i) == tick.before[i]

Pushed(i) == Interact(tick.before[i], tick.mouse)

Moved(i) == Integrate(Interact(tick.before[i], tick.mouse))

\* The last tick ran update() on the particles the field holds now.
Ticked == DOMAIN tick.before

\* C2: after any number of update() calls, with the pointer present or absent,
\* every particle has 0 <= opacity <= 0.9 and -10 <= x <= canvas.width + 10.
C2_OpacityAndXBounded ==
    \A i \in DOMAIN particles :
        /\ 0 <= particles[i].opacity
        /\ particles[i].opacity <= OpacityCap
        /\ -Margin * Scale <= particles[i].x
        /\ particles[i].x <= (canvas.width + Margin) * Scale

\* C2 witness: in the last tick a particle near the pointer had its opacity
\* boost cut at 0.9, moved left of -10 and was wrapped to canvas.width + 10.
C2_Witness ==
    \E i \in Ticked :
        /\ Pushed(i) # Before(i)
        /\ Before(i).opacity + OpacityBoost > OpacityCap
        /\ Moved(i).x < -Margin * Scale
        /\ particles[i].x = (canvas.width + Margin) * Scale

\* b is no farther from target than a, and on the same side of it.
Approaches(a, b, target) ==
    /\ Abs(b - target) <= Abs(a - target)
    /\ (a >= target => b >= target)
    /\ (a <= target => b <= target)

\* C3, as stated: an update() with the pointer cleared and no reset moves vy
\* toward baseSpeedY and opacity toward 0.4, never away and never past them.
C3_ReturnsToBaseSpeed ==
    \A i \in Ticked :
        (~PointerPresent(tick.mouse) /\ ~BelowScreen(Moved(i), tick.canvas))
        => /\ Approaches(Before(i).vy, particles[i].vy, Before(i).baseSpeedY)
           /\ Approaches(Before(i).opacity, particles[i].opacity, OpacityRest)

\* The creation ranges of reset().
InCreationRanges(p, cv) ==
    /\ 0 <= p.x /\ p.x <= cv.width * Scale
    /\ 1000 <= p.size /\ p.size <= 3500
    /\ 100 <= p.speedY /\ p.speedY <= 400
    /\ -50 <= p.speedX /\ p.speedX <= 50
    /\ 300 <= p.opacity /\ p.opacity <= 800
    /\ 0 <= p.swing /\ p.swing <= TwoPi
    /\ 2 <= p.swingSpeed /\ p.swingSpeed <= 7
    /\ 200 <= p.swingAmplitude /\ p.swingAmplitude <= 700

\* C4: a particle whose integrated y exceeds canvas.height + 10 ends the update
\* at y = -10 with vx = vy = 0, parameters in their creation ranges and the base
\* speeds equal to the new speeds; any other particle keeps its parameters and
\* moves by its velocity; the field keeps its size.
C4_ResetInPlace ==
    /\ tick.before # << >> => Len(particles) = Len(tick.before)
    /\ \A i \in Ticked :
           IF Moved(i).y > (tick.canvas.height + Margin) * Scale
           THEN /\ particles[i].y = -Margin * Scale
                /\ particles[i].vx = 0
                /\ particles[i].vy = 0
                /\ InCreationRanges(particles[i], tick.canvas)
                /\ particles[i].baseSpeedX = particles[i].speedX
                /\ particles[i].baseSpeedY = particles[i].speedY
           ELSE /\ particles[i].y = Before(i).y + particles[i].vy
                /\ particles[i].size = Before(i).size
                /\ particles[i].speedX = Before(i).speedX
                /\ particles[i].speedY = Before(i).speedY
                /\ particles[i].baseSpeedX = Before(i).baseSpeedX
                /\ particles[i].baseSpeedY = Before(i).baseSpeedY
                /\ particles[i].swingSpeed = Before(i).swingSpeed
                /\ particles[i].swingAmplitude = Before(i).swingAmplitude
                /\ particles[i].swing = Before(i).swing + Before(i).swingSpeed

\* C4 witness: of two particles the last tick reset one, which took new
\* parameters, and left the other falling.
C4_Witness ==
    /\ Len(particles) = 2
    /\ \E i, j \in Ticked :
           /\ Moved(i).y > (tick.canvas.height + Margin) * Scale
           /\ particles[i].y = -Margin * Scale
           /\ particles[i].size # Before(i).size
           /\ particles[i].speedY # Before(i).speedY
           /\ Before(i).vy > 0
           /\ Moved(j).y <= (tick.canvas.height + Margin) * Scale
           /\ particles[j].y > Before(j).y

\* C5: the resize listener is debounced: at most one timeout is pending; a
\* burst of resize events not yet rebuilt has its timeout pending, due 200ms
\* after the burst's last event and not yet passed; a field with no burst
\* waiting has no timeout pending; every rebuild ran exactly 200ms after the
\* last resize event before it and took at least one event, so a burst gets one
\* rebuild, never two.
C5_Debounced ==
    /\ Cardinality(timers) <= 1
    /\ debounce.burstLen > 0 =>
           \E t \in timers : /\ t.id = resizeTimeout
                             /\ t.due = debounce.lastResize + DebounceMs
                             /\ now <= t.due
    /\ debounce.burstLen = 0 => timers = {} /\ canvas = resizeCanvas(window)
    /\ debounce.rebuilds > 0 =>
           /\ debounce.rebuiltDelay = DebounceMs
           /\ debounce.rebuiltLen >= 1
    /\ debounce.rebuilds + debounce.burstLen <= resizes

\* C5 witness: five resize events, not all at the same instant and each less
\* than 200ms after the one before, got exactly one rebuild, and nothing is
\* pending.
C5_Witness ==
    /\ debounce.rebuilds = 1
    /\ debounce.rebuiltLen = 5
    /\ resizes = 5
    /\ debounce.rebuiltStrict
    /\ debounce.rebuiltSpan > 0
    /\ debounce.rebuiltSpan < DebounceMs
    /\ timers = {}

\* C6: the field holds floor(canvas.width * canvas.height / 6000) particles (80
\* for 800x600, none for an empty viewport), a tick keeps the number, and a
\* field initParticles has just built has every y in [0, canvas.height) and no
\* velocity.
C6_FieldSize ==
    /\ Len(particles) * AreaPerParticle <= canvas.width * canvas.height
    /\ canvas.width * canvas.height < (Len(particles) + 1) * AreaPerParticle
    /\ particleCount([width |-> 800, height |-> 600]) = 80
    /\ particleCount([width |-> 0, height |-> 0]) = 0
    /\ tick # NoTick => Len(tick.before) = Len(particles)
    /\ tick = NoTick =>
           \A i \in DOMAIN particles :
               /\ 0 <= particles[i].y
               /\ particles[i].y < canvas.height * Scale
               /\ particles[i].vx = 0
               /\ particles[i].vy = 0

\* C6 witness: a resize rebuild has replaced the field by two particles for
\* the new canvas size, a pointer is present and ticks have run on them.
C6_Witness ==
    /\ debounce.rebuilds > 0
    /\ tick # NoTick
    /\ PointerPresent(mouse)
    /\ Len(particles) = 2
    /\ canvas.width * canvas.height > 2 * AreaPerParticle

\* C7: in update(), a particle at distance d < 150 from a present pointer gets,
\* before friction, a velocity push of 2 * (150 - d) / 150 along the vector from
\* the pointer to the particle (to the rounding of the arithmetic: two milli per
\* component), and its opacity raised by 0.02 but not above 0.9; with the
\* pointer absent or d >= 150 the pointer block changes nothing.
C7_Repulsion ==
    \A i \in Ticked :
        LET b == Before(i)
            q == Pushed(i)
            dx == b.x - tick.mouse.x * Scale
            dy == b.y - tick.mouse.y * Scale
            d == Hypot(dx, dy)
            room == MouseRadius * Scale - d
            ax == q.vx - b.vx
            ay == q.vy - b.vy
        IN  IF PointerPresent(tick.mouse) /\ d < MouseRadius * Scale
            THEN /\ 0 < room /\ room <= MouseRadius * Scale
                 /\ Abs(ax * d - 2 * Quot(room, MouseRadius * Scale) * dx) <= 2 * d
                 /\ Abs(ay * d - 2 * Quot(room, MouseRadius * Scale) * dy) <= 2 * d
                 /\ ax * dx + ay * dy >= 0
                 /\ q.opacity = Min(OpacityCap, b.opacity + OpacityBoost)
                 /\ ~BelowScreen(Moved(i), tick.canvas) =>
                        /\ particles[i].vx = Mul(b.vx + ax, Friction)
                        /\ particles[i].opacity
                               = q.opacity + Mul(OpacityRest - q.opacity, OpacityReturn)
            ELSE q = b

\* C7 witness: in the last tick one particle within 150 of the pointer was
\* pushed along both axes and had its opacity boost cut at 0.9, while another
\* particle, 150 or more from the pointer, was left alone.
C7_Witness ==
    /\ PointerPresent(tick.mouse)
    /\ \E i, j \in Ticked :
           /\ PointerDistance(Before(i), tick.mouse) < MouseRadius * Scale
           /\ Pushed(i).vx # Before(i).vx
           /\ Pushed(i).vy # Before(i).vy
           /\ Before(i).opacity + OpacityBoost > OpacityCap
           /\ Pushed(i).opacity = OpacityCap
           /\ PointerDistance(Before(j), tick.mouse) >= MouseRadius * Scale
           /\ Pushed(j) = Before(j)

\* The strokes among the calls of the last tick.
Strokes == SelectSeq(tick.calls, LAMBDA c : c.op = "stroke")

\* C8: a tick that runs with the pointer cleared strokes no line.
C8_NoPointerNoStroke ==
    ~PointerPresent(tick.mouse) => Strokes = << >>

\* C8 witness: after ticks with the pointer present, a tick ran with the
\* pointer cleared on two particles within 80 of each other, one of them still
\* carrying the velocity of the repulsion.
C8_Witness ==
    /\ frames >= 2
    /\ ~PointerPresent(tick.mouse)
    /\ Len(tick.before) = 2
    /\ Hypot(Before(1).x - Before(2).x, Before(1).y - Before(2).y) < LinkRadius * Scale
    /\ Before(1).vy < 0
    /\ Strokes = << >>

\* The particle is within 225 (1.5 x the interaction radius) of the pointer.
NearPointer(p, m) == 2 * PointerDistance(p, m) < 3 * m.radius * Scale

\* C9, as stated: every particle-to-particle stroke joins two particles that
\* are both within 225 of the pointer and within 80 of each other.
C9_BothNearPointer ==
    \A k \in DOMAIN Strokes :
        Strokes[k].j # 0 =>
            /\ NearPointer(Before(Strokes[k].i), tick.mouse)
            /\ NearPointer(Before(Strokes[k].j), tick.mouse)
            /\ Hypot(Before(Strokes[k].i).x - Before(Strokes[k].j).x,
                     Before(Strokes[k].i).y - Before(Strokes[k].j).y) < LinkRadius * Scale

\* C9, amended: every particle-to-particle stroke joins a particle i within 225
\* of the pointer and a later particle j within 80 of i (j itself may be
\* farther than 225 from the pointer), and no pair is stroked twice in a tick.
C9_FirstNearPointer ==
    /\ \A k \in DOMAIN Strokes :
           Strokes[k].j # 0 =>
               /\ PointerPresent(tick.mouse)
               /\ Strokes[k].i < Strokes[k].j
               /\ NearPointer(Before(Strokes[k].i), tick.mouse)
               /\ Hypot(Before(Strokes[k].i).x - Before(Strokes[k].j).x,
                        Before(Strokes[k].i).y - Before(Strokes[k].j).y)
                      < LinkRadius * Scale
    /\ \A k, l \in DOMAIN Strokes :
           (/\ k # l
            /\ Strokes[k].j # 0
            /\ Strokes[l].j # 0)
           => { Strokes[k].i, Strokes[k].j } # { Strokes[l].i, Strokes[l].j }

\* C9 witness: the last tick stroked a line between a particle within 225 of
\* the pointer and a particle farther than that.
C9_Witness ==
    \E k \in DOMAIN Strokes :
        /\ Strokes[k].j # 0
        /\ NearPointer(Before(Strokes[k].i), tick.mouse)
        /\ ~NearPointer(Before(Strokes[k].j), tick.mouse)

\* <<x, y>> of a particle.
Position(p) == << p.x, p.y >>

\* C10: a tick clears the surface, then strokes the connection lines between
\* the positions the previous tick left, then updates and at once draws each
\* particle in field order; one animate callback is pending at any time, pointer
\* and resize events included.
C10_TickOrder ==
    /\ rafPending = 1
    /\ animationId = frames + 1
    /\ tick # NoTick =>
           LET n == Len(tick.before)
               k == Len(Strokes)
           IN  /\ Len(tick.calls) = 1 + k + 2 * n
               /\ tick.calls[1].op = "clearRect"
               /\ \A c \in 2..(k + 1) :
                      /\ tick.calls[c].op = "stroke"
                      /\ tick.calls[c].from = Position(Before(tick.calls[c].i))
                      /\ tick.calls[c].to =
                             IF tick.calls[c].j = 0
                             THEN << tick.mouse.x * Scale, tick.mouse.y * Scale >>
                             ELSE Position(Before(tick.calls[c].j))
               /\ \A i \in 1..n :
                      /\ tick.calls[k + 2 * i].op = "update"
                      /\ tick.calls[k + 2 * i].i = i
                      /\ tick.calls[k + 2 * i].from = Position(Before(i))
                      /\ tick.calls[k + 2 * i].to = Position(particles[i])
                      /\ tick.calls[k + 2 * i + 1].op = "arc"
                      /\ tick.calls[k + 2 * i + 1].i = i
                      /\ tick.calls[k + 2 * i + 1].from = Position(particles[i])

\* C10 witness: after a resize rebuild and with a pointer present, a tick
\* stroked lines and then updated and drew two particles that moved.
C10_Witness ==
    /\ debounce.rebuilds > 0
    /\ frames >= 2
    /\ PointerPresent(tick.mouse)
    /\ Len(tick.before) = 2
    /\ Len(Strokes) >= 3
    /\ Position(particles[1]) # Position(Before(1))
    /\ Position(particles[2]) # Position(Before(2))

====
